---- MODULE Spec2Model ----
(***************************************************************************)
(* Model of the resilient element-interaction layer of xwp-automation:     *)
(* ElementHelper (utils/element.helper.ts) and SmartLogger                 *)
(* (utils/ai-context.utils.ts).                                            *)
(*                                                                         *)
(* Text is modelled as a sequence of tokens (strings): an error message or *)
(* a log message is a sequence of words, a typed value is a sequence of    *)
(* characters.  String.includes is the contiguous-subsequence test and     *)
(* toLowerCase maps every token through a table.                           *)
(***************************************************************************)
EXTENDS Integers, Sequences, FiniteSets, TLC

VARIABLES
    env,          \* process.env toggles read by the static initialisers
    logs,         \* SmartLogger.logs
    currentTest,  \* SmartLogger.currentTest
    pc,           \* position of the running call
    call,         \* the arguments of the running call
    attempt,      \* retryOperation: loop variable
    lastError,    \* retryOperation: lastError
    pending,      \* retryOperation: delay of the timer being awaited
    engine,       \* outcome of retryOperation
    result,       \* outcome of the facade call
    last,         \* history: outcome of the latest invocation of the operation
    invocations,  \* history: number of invocations of the operation
    raised,       \* history: messages of the errors the invocations raised
    pagesSeen,    \* history: page statuses the invocations observed
    delays,       \* history: every delay waited by retryOperation
    prims,        \* history: page primitives called, in order
    attachments,  \* value returned by the exportForReporting call just made
    removed,      \* history: entries the latest clearTestLogs call removed
    health,       \* the latest checkElementHealth call: arguments and outcome
    checkboxes,   \* the page: checked state of each checkbox
    toggles,      \* history: the toggleCheckbox calls made, in order
    lastOp,       \* the latest call made outside the retry engine: its
                  \* arguments, what the page did, its outcome
    tasks         \* position of each logical test in an interleaved run

vars == <<env, logs, currentTest, pc, call, attempt, lastError, pending,
          engine, result, last, invocations, raised, pagesSeen, delays,
          prims, attachments, removed, health, checkboxes, toggles, lastOp,
          tasks>>

\* the variables of a retry run, a click or a fill, but for the call itself
facade == <<pc, attempt, lastError, pending, engine, result, last,
            invocations, raised, pagesSeen, delays, prims>>

\* the variables a retry run, a click or a fill never touch
side == <<attachments, removed, health, checkboxes, toggles, lastOp, tasks>>

----------------------------------------------------------------------------
(* Bounds of the model *)

MaxRetriesArg == 4
MaxBaseDelayIdx == 2
MaxEnvRetries == 3
MaxIndex == 0
MaxLogs == 4
MaxMatches == 2
MaxBox == 1
MaxToggles == 3
MaxSteps == 2

----------------------------------------------------------------------------
(* Text *)

toLowerCase_tok(t) ==
    CASE t = "Element" -> "element"
      [] t = "ELEMENT" -> "element"
      [] t = "NOT" -> "not"
      [] t = "FOUND" -> "found"
      [] t = "Navigation" -> "navigation"
      [] t = "Target" -> "target"
      [] t = "Timeout" -> "timeout"
      [] t = "Page" -> "page"
      [] t = "net::ERR_NAME_NOT_RESOLVED" -> "net::err_name_not_resolved"
      [] t = "net::ERR_CONNECTION_REFUSED" -> "net::err_connection_refused"
      [] t = "net::ERR_ABORTED" -> "net::err_aborted"
      [] t = "Value" -> "value"
      [] t = "Expected:" -> "expected:"
      [] t = "Actual:" -> "actual:"
      [] t = "P" -> "p"
      [] t = "A" -> "a"
      [] t = "S" -> "s"
      [] t = "W" -> "w"
      [] t = "O" -> "o"
      [] t = "R" -> "r"
      [] t = "D" -> "d"
      [] OTHER -> t

toLowerCase(s) == [i \in 1..Len(s) |-> toLowerCase_tok(s[i])]

includes(hay, needle) ==
    \E i \in 0..(Len(hay) - Len(needle)) :
        SubSeq(hay, i + 1, i + Len(needle)) = needle


----------------------------------------------------------------------------
(* Errors.  A thrown value is an Error carrying a message, or the value     *)
(* undefined (retryOperation's lastError before any assignment).            *)

Err(m) == [kind |-> "Error", message |-> m]
Undefined == [kind |-> "undefined", message |-> <<>>]
None == [kind |-> "none", message |-> <<>>]

\* Messages raised by the page primitives (Playwright) and by operations.
MsgTimeout == <<"Timeout", "exceeded">>
MsgClosed == <<"Target", "page,", "context", "or", "browser", "has", "been", "closed">>
MsgNotFound == <<"Element", "not", "found">>
MsgNotFoundUpper == <<"Click:", "ELEMENT", "NOT", "FOUND", "in", "DOM">>
MsgPageClosed == <<"Page", "has", "been", "closed">>
MsgNavigation == <<"Navigation", "failed", "because", "page", "crashed">>
MsgDns == <<"page.goto:", "net::ERR_NAME_NOT_RESOLVED", "at", "url">>
MsgRefused == <<"net::ERR_CONNECTION_REFUSED">>
MsgNotVisible == <<"Element", "not", "visible">>
MsgAborted == <<"net::ERR_ABORTED">>

ERROR_MESSAGES ==
    [ELEMENT_NOT_FOUND |-> <<"Element", "not", "found">>,
     ELEMENT_NOT_VISIBLE |-> <<"Element", "not", "visible">>,
     INVALID_PARAMETER |-> <<"Invalid", "parameter", "provided">>]

unrecoverablePatterns ==
    { <<"Element", "not", "found">>,
      <<"page", "has", "been", "closed">>,
      <<"context", "has", "been", "closed">>,
      <<"browser", "has", "been", "closed">>,
      <<"Navigation", "failed">>,
      <<"net::ERR_NAME_NOT_RESOLVED">>,
      <<"net::ERR_CONNECTION_REFUSED">> }

\* a slip: the comparison made case-sensitive
isUnrecoverableError_caseSensitive(error) ==
    \E pattern \in unrecoverablePatterns : includes(error.message, pattern)

isUnrecoverableError(error) ==
    \E pattern \in unrecoverablePatterns :
        includes(toLowerCase(error.message), toLowerCase(pattern))

----------------------------------------------------------------------------
(* SmartLogger *)

NoContext ==
    [element |-> <<>>, value |-> <<>>, step |-> 0, errorMessage |-> <<>>,
     stack |-> <<>>, inspected |-> FALSE, inspectionError |-> FALSE,
     suggestions |-> <<>>]

LogEntry(level, message, testName, context) ==
    [level |-> level, message |-> message, testName |-> testName,
     context |-> context]

\* SmartLogger.log: the buffer after one more entry tagged with currentTest
log(buffer, test, level, message, context) ==
    Append(buffer, LogEntry(level, message, test, context))

sanitizeValue(value) ==
    IF includes(toLowerCase(value), <<"p", "a", "s", "s", "w", "o", "r", "d">>)
       \/ Len(value) > 6
    THEN [i \in 1..Len(value) |-> "*"]
    ELSE value

getCurrentStepNumber(buffer, test) ==
    Cardinality({i \in 1..Len(buffer) :
                    buffer[i].testName = test /\ buffer[i].level = "ACTION"}) + 1

logUserAction(buffer, test, action, element, value) ==
    log(buffer, test, "ACTION", <<"User", action>>,
        [NoContext EXCEPT !.element = <<element>>,
                          !.value = IF value # <<>> THEN sanitizeValue(value) ELSE <<>>,
                          !.step = getCurrentStepNumber(buffer, test)])

\* ErrorInspector.inspectPageOnError, over what the inspection meets:
\*   "ok"        every step answers;
\*   "degraded"  a step inside its try block raises (page.context().cookies()
\*               on a closed context): the report comes back, the failure
\*               noted in report.inspectionError;
\*   "fails"     a step outside the try block raises (page.url() on an object
\*               that is no page): the call throws.
inspectPageOnError(inspection) ==
    [threw |-> inspection = "fails", inspectionError |-> inspection = "degraded"]

\* SmartLogger.logError(error, page, autoInspect).  inspection is "none" when
\* no page is given, "off" when autoInspect is false, and otherwise what the
\* page inspection meets.  errorContext.pageInspection copies url, title,
\* screenshot, errorElements and blockingElements from the report;
\* errorContext.inspectionError is set in the catch block only.
logError(buffer, test, error, inspection) ==
    LET inspecting == inspection \notin {"none", "off"}
        report == inspectPageOnError(inspection)
    IN  log(buffer, test, "ERROR", error.message,
            [NoContext EXCEPT !.errorMessage = error.message,
                              !.stack = error.message,
                              !.inspected = inspecting /\ ~report.threw,
                              !.inspectionError = inspecting /\ report.threw])


----------------------------------------------------------------------------
(* Configuration read once by the static initialisers *)

EnvUnset == [tag |-> "unset", n |-> 0]
EnvGarbage == [tag |-> "text", n |-> 0]
EnvNumber(n) == [tag |-> "number", n |-> n]
NaN == [nan |-> TRUE, n |-> 0]
Num(n) == [nan |-> FALSE, n |-> n]

\* parseInt(process.env.TEST_RETRIES || '1')
loadConfiguration_retries(e) ==
    CASE e.TEST_RETRIES.tag = "unset" -> Num(1)
      [] e.TEST_RETRIES.tag = "text" -> NaN
      [] OTHER -> Num(e.TEST_RETRIES.n)

\* getConfig().retries || 3
MAX_RETRIES(e) ==
    LET r == loadConfiguration_retries(e)
    IN  IF r.nan \/ r.n = 0 THEN 3 ELSE r.n

BASE_RETRY_DELAY == 500

ENABLE_PERFORMANCE_MONITORING(e) == e.PERFORMANCE_MONITORING # "false"
ENABLE_VALUE_VERIFICATION(e) == e.VALUE_VERIFICATION = "true"
ENABLE_HEALTH_CHECKS(e) == e.DETAILED_HEALTH_CHECKS = "true"

----------------------------------------------------------------------------
(* The page, as one invocation of an operation observes it *)

PageStatus == {"absent", "hidden", "ready", "closed"}
PrimitiveOutcome == {"ok", "timeout", "closed"}

PrimitiveError(o) == IF o = "closed" THEN Err(MsgClosed) ELSE Err(MsgTimeout)

\* locator.waitFor({state: 'visible'})
waitForVisible(status) ==
    CASE status = "ready" -> "ok"
      [] status = "closed" -> "closed"
      [] OTHER -> "timeout"

\* smartWaitForElement(locator, {visible: true}, timeout): only the
\* visibility wait runs for these conditions.
smartWaitForElement(status) == waitForVisible(status)

\* slow is set by the engine: the run ended with this invocation succeeding
\* and took over 1000 ms in all
Invocation(ok, error, status, called, readback) ==
    [ok |-> ok, error |-> error, page |-> status, prims |-> called,
     readback |-> readback, slow |-> FALSE]

\* The closure clickElement hands to retryOperation, over what the page does.
clickOperation ==
    { Invocation(FALSE, PrimitiveError(smartWaitForElement(s)), s, <<"waitFor">>, <<>>) :
        s \in {t \in PageStatus : smartWaitForElement(t) # "ok"} }
    \cup
    { Invocation(c = "ok", IF c = "ok" THEN None ELSE PrimitiveError(c),
                 "ready", <<"waitFor", "click">>, <<>>) :
        c \in PrimitiveOutcome }

VerificationMessage(value, actual) ==
    <<"Value", "verification", "failed.", "Expected:">> \o value
        \o <<"Actual:">> \o actual

\* The closure enterValue hands to retryOperation.  readbacks is the set of
\* values inputValue() can return after the fill.
fillOperation(e, value, readbacks) ==
    { Invocation(FALSE, PrimitiveError(smartWaitForElement(s)), s, <<"waitFor">>, <<>>) :
        s \in {t \in PageStatus : smartWaitForElement(t) # "ok"} }
    \cup
    { Invocation(FALSE, PrimitiveError(f), "ready", <<"waitFor", "fill">>, <<>>) :
        f \in PrimitiveOutcome \ {"ok"} }
    \cup
    ( IF ENABLE_VALUE_VERIFICATION(e)
      THEN { Invocation(FALSE, PrimitiveError(r), "ready",
                        <<"waitFor", "fill", "inputValue">>, <<>>) :
                r \in PrimitiveOutcome \ {"ok"} }
           \cup
           { Invocation(actual = value,
                        IF actual = value THEN None
                        ELSE Err(VerificationMessage(value, actual)),
                        "ready", <<"waitFor", "fill", "inputValue">>, actual) :
                actual \in readbacks }
      ELSE { Invocation(TRUE, None, "ready", <<"waitFor", "fill">>, <<>>) } )


----------------------------------------------------------------------------
(* Inputs *)

ValPassword == <<"P", "a", "s", "s", "W", "o", "r", "d">>
ValLong == <<"s", "e", "c", "r", "e", "t", "1">>
ValSix == <<"a", "d", "m", "i", "n", "1">>
Values == {ValPassword, ValLong, ValSix}

\* what inputValue() may read back after fill(value)
Readbacks(value) == {value, <<>>, SubSeq(value, 1, 2)}

Selectors == {"#submit"}
Tests == {"t1", "t2"}
CallTests == {"t1"}

\* what an arbitrary operation handed to retryOperation may raise
OperationMessages ==
    {MsgTimeout, MsgNotVisible, MsgAborted, MsgNotFound, MsgNotFoundUpper,
     MsgClosed, MsgPageClosed, MsgNavigation, MsgDns, MsgRefused}

genericOperation ==
    { Invocation(TRUE, None, "ready", <<"operation">>, <<>>) }
    \cup
    { Invocation(FALSE, Err(m), "ready", <<"operation">>, <<>>) :
        m \in OperationMessages }

DefaultEnv ==
    [PERFORMANCE_MONITORING |-> "unset", VALUE_VERIFICATION |-> "unset",
     DETAILED_HEALTH_CHECKS |-> "unset", TEST_RETRIES |-> EnvUnset]

EnvSettings ==
    [PERFORMANCE_MONITORING : {"unset", "false"},
     VALUE_VERIFICATION : {"unset", "true"},
     DETAILED_HEALTH_CHECKS : {"unset"},
     TEST_RETRIES : {EnvUnset, EnvGarbage}
                    \cup {EnvNumber(n) : n \in (-1)..MaxEnvRetries}]

NoCall ==
    [kind |-> "none", selector |-> "", index |-> 0, value |-> <<>>,
     maxRetries |-> 0, baseDelay |-> 0]

----------------------------------------------------------------------------
(* ElementHelper: retryOperation, clickElement, enterValue *)

createErrorMessage(operation, element, error) ==
    operation \o <<"failed", "for", "selector", element>>
        \o (IF error # <<>> THEN <<":">> \o error ELSE <<>>)

\* validateParams({page, element, index, timeout}) as far as the index goes:
\* the error it throws, or None
validateParams(index) ==
    IF index < 0
    THEN Err(ERROR_MESSAGES.INVALID_PARAMETER
             \o <<"index", "must", "be", "non-negative">>)
    ELSE None

operationName(c) ==
    CASE c.kind = "click" -> <<"Click", c.selector>>
      [] c.kind = "fill" -> <<"Enter", "value", "in", c.selector>>
      [] OTHER -> <<"operation">>

Operation(c) ==
    CASE c.kind = "click" -> clickOperation
      [] c.kind = "fill" -> fillOperation(env, c.value, Readbacks(c.value))
      [] OTHER -> genericOperation

\* the entry the closure itself logs right before it returns
closureLog(buffer, c) ==
    CASE c.kind = "click" ->
            log(buffer, currentTest, "INFO",
                <<"Successfully", "clicked", c.selector>>, NoContext)
      [] c.kind = "fill" ->
            log(buffer, currentTest, "INFO",
                <<"Successfully", "filled", c.selector>>
                  \o (IF ENABLE_VALUE_VERIFICATION(env)
                      THEN <<"with", "verified", "value">> ELSE <<>>),
                NoContext)
      [] OTHER -> buffer

\* a slip: the exponent counted from the first attempt
retryDelay_fromFirst(a, baseDelay) ==
    IF a = 1 THEN 100 ELSE baseDelay * 2 ^ (a - 1)

\* delay = attempt === 1 ? 100 : baseDelay * Math.pow(2, attempt - 2)
retryDelay(a, baseDelay) ==
    IF a = 1 THEN 100 ELSE baseDelay * 2 ^ (a - 2)

\* a slip: giving up one attempt early
lastAttempt_early(a, maxRetries) == a + 1 >= maxRetries

\* if (attempt === maxRetries)
lastAttempt(a, maxRetries) == a = maxRetries

\* a slip: the completion entry written for slow runs only
logsCompletion_slowOnly(e, a, slow) ==
    ENABLE_PERFORMANCE_MONITORING(e) /\ slow

\* a slip: the completion entry written for retried runs only
logsCompletion_retriesOnly(e, a, slow) ==
    ENABLE_PERFORMANCE_MONITORING(e) /\ a > 1

\* if (ENABLE_PERFORMANCE_MONITORING) { if (attempt > 1 || totalTime > 1000)
logsCompletion(e, a, slow) ==
    ENABLE_PERFORMANCE_MONITORING(e) /\ (a > 1 \/ slow)

\* retryOperation returned: the facade call returns
Returned(buffer) ==
    /\ logs' = buffer
    /\ engine' = [status |-> "returned", error |-> None]
    /\ result' = [status |-> "returned", error |-> None]
    /\ pc' = "done"

\* a slip: the engine throwing an error of its own in place of the
\* operation's
Thrown_substitute(e, buffer, inspection) ==
    /\ engine' = [status |-> "threw",
                  error |-> Err(<<"Operation", "failed", "after", "retries">>)]
    /\ pc' = "done"
    /\ IF call'.kind = "retry"
       THEN /\ logs' = buffer
            /\ result' = [status |-> "threw", error |-> e]
       ELSE IF e.kind = "undefined"
       THEN /\ logs' = buffer
            /\ result' = [status |-> "threw",
                          error |-> Err(<<"TypeError:", "Cannot", "read",
                                          "properties", "of", "undefined">>)]
       ELSE /\ logs' = logError(buffer, currentTest, e, inspection)
            /\ result' = [status |-> "threw",
                          error |-> Err(createErrorMessage(
                              IF call'.kind = "click" THEN <<"Click">>
                              ELSE <<"Enter", "value">>,
                              call'.selector, e.message))]

\* retryOperation threw e: clickElement / enterValue catch it, log it with a
\* page inspection and throw the wrapped error; a bare retry run just throws.
Thrown(e, buffer, inspection) ==
    /\ engine' = [status |-> "threw", error |-> e]
    /\ pc' = "done"
    /\ IF call'.kind = "retry"
       THEN /\ logs' = buffer
            /\ result' = [status |-> "threw", error |-> e]
       ELSE IF e.kind = "undefined"
       THEN /\ logs' = buffer
            /\ result' = [status |-> "threw",
                          error |-> Err(<<"TypeError:", "Cannot", "read",
                                          "properties", "of", "undefined">>)]
       ELSE /\ logs' = logError(buffer, currentTest, e, inspection)
            /\ result' = [status |-> "threw",
                          error |-> Err(createErrorMessage(
                              IF call'.kind = "click" THEN <<"Click">>
                              ELSE <<"Enter", "value">>,
                              call'.selector, e.message))]

\* for (let attempt = 1; attempt <= maxRetries; ...): entering the loop with
\* attempt a, or falling through to `throw lastError!`
LoopEnter(a, err, buffer, inspection) ==
    IF a <= call'.maxRetries
    THEN /\ attempt' = a
         /\ pc' = "attempt"
         /\ logs' = buffer
         /\ UNCHANGED <<engine, result>>
    ELSE /\ attempt' = a
         /\ Thrown(err, buffer, inspection)

RetryOperation(maxRetries, baseDelay) ==
    /\ pc = "idle"
    /\ call' = [NoCall EXCEPT !.kind = "retry", !.maxRetries = maxRetries,
                              !.baseDelay = baseDelay]
    /\ LoopEnter(1, Undefined, logs, "ok")
    /\ UNCHANGED <<env, currentTest, lastError, pending, last, invocations,
                   raised, pagesSeen, delays, prims, side>>

FacadeStart(kind, action, selector, value, index) ==
    /\ pc = "idle"
    /\ call' = [NoCall EXCEPT !.kind = kind, !.selector = selector,
                              !.index = index, !.value = value,
                              !.maxRetries = MAX_RETRIES(env),
                              !.baseDelay = BASE_RETRY_DELAY]
    /\ IF validateParams(index) # None
       THEN /\ result' = [status |-> "threw", error |-> validateParams(index)]
            /\ pc' = "done"
            /\ UNCHANGED <<logs, engine, attempt>>
       ELSE \E inspection \in {"ok", "fails"} :
              LoopEnter(1, Undefined,
                        logUserAction(logs, currentTest, action, selector, value),
                        inspection)
    /\ UNCHANGED <<env, currentTest, lastError, pending, last, invocations,
                   raised, pagesSeen, delays, prims, side>>

ClickElement(selector, index) ==
    FacadeStart("click", "click", selector, <<>>, index)

EnterValue(selector, value, index) ==
    FacadeStart("fill", "fill", selector, value, index)

\* one pass through the loop body: invoke the operation, then the try/catch
Attempt ==
    /\ pc = "attempt"
    /\ UNCHANGED <<env, currentTest, call, attempt, delays, side>>
    /\ \E o \in Operation(call), slow \in BOOLEAN, inspection \in {"ok", "fails"} :
        /\ last' = [o EXCEPT !.slow = o.ok /\ slow]
        /\ invocations' = invocations + 1
        /\ raised' = IF o.ok THEN raised ELSE raised \cup {o.error.message}
        /\ pagesSeen' = pagesSeen \cup {o.page}
        /\ prims' = prims \o o.prims
        /\ IF o.ok
           THEN /\ Returned(
                     IF logsCompletion(env, attempt, slow)
                     THEN log(closureLog(logs, call), currentTest, "INFO",
                              operationName(call) \o <<"completed",
                                  IF attempt > 1 THEN "(with retries)"
                                  ELSE "(slow operation)">>, NoContext)
                     ELSE closureLog(logs, call))
                /\ UNCHANGED <<lastError, pending>>
           ELSE /\ lastError' = o.error
                /\ IF isUnrecoverableError(o.error)
                   THEN /\ Thrown(o.error,
                                  log(logs, currentTest, "ERROR",
                                      operationName(call)
                                        \o <<"failed", "(unrecoverable):">>
                                        \o o.error.message, NoContext),
                                  inspection)
                        /\ UNCHANGED pending
                   ELSE IF lastAttempt(attempt, call.maxRetries)
                   THEN /\ Thrown(o.error,
                                  log(logs, currentTest, "ERROR",
                                      operationName(call)
                                        \o <<"failed", "after", ToString(call.maxRetries)>>
                                        \o (IF ENABLE_PERFORMANCE_MONITORING(env)
                                            THEN <<"attempts", "in", "ms:">>
                                            ELSE <<"attempts:">>)
                                        \o o.error.message, NoContext),
                                  inspection)
                        /\ UNCHANGED pending
                   ELSE /\ pending' = retryDelay(attempt, call.baseDelay)
                        /\ logs' = log(logs, currentTest, "WARN",
                                       operationName(call)
                                         \o <<"attempt", ToString(attempt), "failed,",
                                              "retrying", "in",
                                              ToString(retryDelay(attempt, call.baseDelay)),
                                              "ms">>,
                                       NoContext)
                        /\ pc' = "backoff"
                        /\ UNCHANGED <<engine, result>>

\* a slip: the delay awaited on a promise that never resolves
Backoff_neverResolved ==
    /\ pc = "backoff"
    /\ pending' = 0
    /\ UNCHANGED <<env, logs, currentTest, pc, call, attempt, lastError,
                   engine, result, last, invocations, raised, pagesSeen,
                   delays, prims, side>>

\* await new Promise(resolve => setTimeout(resolve, delay)); attempt++
Backoff ==
    /\ pc = "backoff"
    /\ delays' = Append(delays, pending)
    /\ UNCHANGED call
    /\ \E inspection \in {"ok", "fails"} :
         LoopEnter(attempt + 1, lastError, logs, inspection)
    /\ UNCHANGED <<env, currentTest, lastError, pending, last, invocations,
                   raised, pagesSeen, prims, side>>


----------------------------------------------------------------------------
(* SmartLogger: export and clear *)
\* lines.join('\n'): the lines of a list, one after the other
RECURSIVE joinLines(_)
joinLines(lines) ==
    IF lines = <<>> THEN <<>> ELSE Head(lines) \o joinLines(Tail(lines))

\* the selectors inspectErrorElements looks for, each split at its
\* punctuation so that selector.includes('error') reads as on the text
errorSelectors ==
    << <<".", "error">>, <<".", "error", "-", "message">>,
       <<".", "alert", "-", "danger">>, <<".", "notice", "-", "error">>,
       <<"#", "error">>, <<"[role=", "alert", "]">>,
       <<".", "wp", "-", "die", "-", "message">>,
       <<".", "login", "-", "error">>, <<".", "message", ".", "error">> >>

\* ErrorInspector.inspectErrorElements on a page that shows at most one
\* element, matching shown.selector: elements[selector] = {count, visible,
\* text} for each error selector with a match.  (No loading indicator is on
\* the page; the exists_* keys hold booleans, which have no visible field.)
inspectErrorElements(shown) ==
    LET matched(selector) == selector = shown.selector
    IN  [i \in 1..Len(SelectSeq(errorSelectors, matched)) |->
            [key |-> shown.selector, visible |-> shown.visible,
             text |-> shown.text]]

\* ErrorInspector.generateFailureSuggestions(report), for a report with no
\* network error, no JavaScript error, no blocking element and a loaded page
generateFailureSuggestions(url, title, elements) ==
    LET found ==
            (IF includes(url, <<"wp-login.php">>)
             THEN << <<"Login", "page", "detected", "-", "check", "credentials",
                       "and", "form", "submission">> >>
             ELSE <<>>)
            \o (IF includes(url, <<"404">>)
                   \/ includes(toLowerCase(title), <<"not", "found">>)
                THEN << <<"404", "error", "detected", "-", "verify", "URL",
                          "and", "routing">> >>
                ELSE <<>>)
            \o joinLines([i \in 1..Len(elements) |->
                   (IF includes(elements[i].key, <<"error">>) /\ elements[i].visible
                    THEN << <<"Error", "message", "found:">> \o elements[i].text
                              \o <<"-", "check", "form", "validation", "or",
                                   "server", "response">> >>
                    ELSE <<>>)
                   \o (IF includes(elements[i].key, <<"loading">>)
                          /\ elements[i].visible
                       THEN << <<"Loading", "indicator", "still", "visible">> >>
                       ELSE <<>>)])
    IN  IF found = <<>>
        THEN << <<"Check", "element", "selectors", "-", "they", "may", "have",
                  "changed">>,
                <<"Consider", "adding", "explicit", "waits", "for", "dynamic",
                  "content">>,
                <<"Verify", "page", "navigation", "completed", "successfully">> >>
        ELSE found

\* SmartLogger.logError(error, page) when every step of the inspection
\* answers, with what the page shows: errorContext.suggestions are the
\* suggestions generated from the report
logErrorOn(buffer, test, error, shown) ==
    LET logged == logError(buffer, test, error, "ok")
    IN  [logged EXCEPT ![Len(logged)].context.suggestions =
            generateFailureSuggestions(shown.url, shown.title,
                                       inspectErrorElements(shown))]

forTest(buffer, test) ==
    LET mine(e) == e.testName = test IN SelectSeq(buffer, mine)

ofLevel(buffer, level) ==
    LET is(e) == e.level = level IN SelectSeq(buffer, is)

\* One rendered entry of an attachment: the text written for it, and the
\* test context of the log entry it was rendered from.
Rendered(e, text) == [origin |-> e.testName, level |-> e.level, text |-> text]

\* JSON.stringify of a whole entry
renderEntry(e) ==
    Rendered(e, e.message \o e.context.element \o e.context.value
                  \o e.context.errorMessage \o e.context.stack
                  \o joinLines(e.context.suggestions))

renderAll(buffer) == [i \in 1..Len(buffer) |-> renderEntry(buffer[i])]

\* generateTimeline / generateTimelineHTML: timestamp, level, message
generateTimeline(buffer) ==
    [i \in 1..Len(buffer) |-> Rendered(buffer[i], buffer[i].message)]

\* generateTestSummary: everything in it derives from the current test's logs
generateTestSummary(buffer, test) ==
    [testLogs |-> forTest(buffer, test),
     timeline |-> generateTimeline(forTest(buffer, test)),
     errors |-> ofLevel(forTest(buffer, test), "ERROR"),
     warnings |-> ofLevel(forTest(buffer, test), "WARN")]

\* generateActionSteps: this.logs.filter(log => log.level === 'ACTION')
generateActionSteps(buffer, test) ==
    LET actionLogs == ofLevel(buffer, "ACTION")
    IN  [i \in 1..Len(actionLogs) |->
            Rendered(actionLogs[i],
                     actionLogs[i].message \o actionLogs[i].context.element
                       \o actionLogs[i].context.value)]

\* generateErrorAnalysis(summary.errors): message, page info (url,
\* screenshot, number of error and blocking elements), suggestions, stack
generateErrorAnalysis(errors) ==
    [i \in 1..Len(errors) |->
        Rendered(errors[i], errors[i].message
                              \o joinLines(errors[i].context.suggestions)
                              \o errors[i].context.stack)]

exportForReporting(buffer, test) ==
    LET summary == generateTestSummary(buffer, test)
    IN  [exported |-> TRUE,
         testName |-> test,
         raw |-> renderAll(buffer),
         summary |-> renderAll(summary.testLogs),
         timeline |-> summary.timeline,
         actions |-> generateActionSteps(buffer, test),
         errorAnalysis |-> IF Len(summary.errors) > 0
                           THEN generateErrorAnalysis(summary.errors)
                           ELSE <<>>]

NoAttachments ==
    [exported |-> FALSE, testName |-> "", raw |-> <<>>, summary |-> <<>>, timeline |-> <<>>,
     actions |-> <<>>, errorAnalysis |-> <<>>]

\* a slip: the whole buffer dropped
clearTestLogs_everything(buffer, test) == <<>>

\* this.logs.filter(log => log.testName !== this.currentTest)
clearTestLogs(buffer, test) ==
    LET others(e) == e.testName # test IN SelectSeq(buffer, others)

\* initializeTest(testName): sets the context, then logs 'Test started'
initializeTest(buffer, testName) ==
    log(buffer, testName, "INFO", <<"Test", "started">>, NoContext)

----------------------------------------------------------------------------
(* ElementHelper.checkElementHealth *)

\* what one inspection call on the locator does: it answers, or it raises
Answers(v) == [raises |-> FALSE, value |-> v, message |-> <<>>]
Raises(m) == [raises |-> TRUE, value |-> 0, message |-> m]

Report(healthy, issues) ==
    [threw |-> FALSE, error |-> None, healthy |-> healthy, issues |-> issues]
Raise(m) == [threw |-> TRUE, error |-> Err(m), healthy |-> FALSE, issues |-> <<>>]

IssueNotFound == <<"Element", "not", "found", "in", "DOM">>
IssueMultiple(n) ==
    <<"Multiple", "elements", "found", ToString(n), "using", "first", "one">>
IssueNotVisible == <<"Element", "is", "not", "visible">>
IssueDisabled == <<"Element", "is", "disabled">>
IssueSkipped(m) == <<"Health", "check", "skipped:">> \o m

\* a slip: any issue at all fails health
healthyFor_noIssues(issues) == issues = <<>>

\* issues.filter(issue => !issue.includes('Multiple elements')).length === 0
healthyFor(issues) ==
    \A i \in 1..Len(issues) : includes(issues[i], <<"Multiple", "elements">>)

\* the try block: a report, or the error of the inspection call that raised
healthTry(operationType, count, isVisible, isEnabled) ==
    IF count.raises THEN Raise(count.message)
    ELSE IF count.value = 0 THEN Report(FALSE, <<IssueNotFound>>)
    ELSE
        LET multiple == IF count.value > 1 THEN <<IssueMultiple(count.value)>>
                        ELSE <<>>
        IN  IF isVisible.raises THEN Raise(isVisible.message)
            ELSE
                LET seen == multiple \o (IF ~isVisible.value
                                         THEN <<IssueNotVisible>> ELSE <<>>)
                IN  IF operationType \in {"click", "fill"} /\ isVisible.value
                    THEN IF isEnabled.raises THEN Raise(isEnabled.message)
                         ELSE LET issues == seen \o (IF ~isEnabled.value
                                                     THEN <<IssueDisabled>>
                                                     ELSE <<>>)
                              IN  Report(healthyFor(issues), issues)
                    ELSE Report(healthyFor(seen), seen)

\* a slip: no catch around the inspection
checkElementHealth_uncaught(e, operationType, count, isVisible, isEnabled) ==
    IF ~ENABLE_HEALTH_CHECKS(e) THEN Report(TRUE, <<>>)
    ELSE healthTry(operationType, count, isVisible, isEnabled)

checkElementHealth(e, operationType, count, isVisible, isEnabled) ==
    IF ~ENABLE_HEALTH_CHECKS(e) THEN Report(TRUE, <<>>)
    ELSE LET tried == healthTry(operationType, count, isVisible, isEnabled)
         IN  IF tried.threw
             THEN Report(TRUE, <<IssueSkipped(tried.error.message)>>)
             ELSE tried

NoHealthCall ==
    [called |-> FALSE, operationType |-> "", count |-> Answers(0),
     isVisible |-> Answers(FALSE), isEnabled |-> Answers(FALSE),
     outcome |-> Report(TRUE, <<>>)]

----------------------------------------------------------------------------
(* Operations that run outside the retry engine: their arguments, the page  *)
(* they meet and their outcome.                                             *)
(*                                                                          *)
(* The arguments of a call are a record: element ("given", or "null" for    *)
(* null/undefined), index and timeout (numbers), selector.  The page a call *)
(* meets is a record: the status of the element the locator designates,     *)
(* its content (text, value or attribute: a string or null) and the number  *)
(* of elements the selector matches.                                        *)

\* a string, or null
Str(s) == [null |-> FALSE, s |-> s]
Null == [null |-> TRUE, s |-> <<>>]

\* a value a call returns: a string, a boolean, a number or nothing
Value(type, s, flag, n) == [type |-> type, s |-> s, flag |-> flag, n |-> n]

\* the outcome of a call, with the primitives it called on the way, each a
\* pair <<primitive, index given to nth>>
Returns(v, touched) ==
    [status |-> "returned", value |-> v, error |-> None, touched |-> touched]
Throws(e, touched) ==
    [status |-> "threw", value |-> Value("void", <<>>, FALSE, 0), error |-> e,
     touched |-> touched]

\* a parameter name, character by character
chars(key) ==
    CASE key = "index" -> <<"i", "n", "d", "e", "x">>
      [] key = "timeout" -> <<"t", "i", "m", "e", "o", "u", "t">>
      [] key = "sourceIndex" -> <<"s", "o", "u", "r", "c", "e", "I", "n", "d", "e", "x">>
      [] key = "targetIndex" -> <<"t", "a", "r", "g", "e", "t", "I", "n", "d", "e", "x">>
      [] key = "page" -> <<"p", "a", "g", "e">>
      [] key = "element" -> <<"e", "l", "e", "m", "e", "n", "t">>
      [] key = "source" -> <<"s", "o", "u", "r", "c", "e">>
      [] key = "target" -> <<"t", "a", "r", "g", "e", "t">>
      [] key = "value" -> <<"v", "a", "l", "u", "e">>
      [] key = "attribute" -> <<"a", "t", "t", "r", "i", "b", "u", "t", "e">>
      [] key = "className" -> <<"c", "l", "a", "s", "s", "N", "a", "m", "e">>
      [] OTHER -> <<key>>

\* the check validateParams makes on one entry <<key, kind, n>>, kind being
\* "null" (null or undefined), "number" (the number n) or "given" (anything
\* else): the error it throws, or None
validateEntry(p) ==
    IF p[2] = "null"
    THEN Err(ERROR_MESSAGES.INVALID_PARAMETER
             \o <<p[1], "cannot", "be", "null", "or", "undefined">>)
    ELSE IF includes(chars(p[1]), chars("timeout")) /\ p[2] = "number" /\ p[3] < 0
    THEN Err(ERROR_MESSAGES.INVALID_PARAMETER \o <<p[1], "must", "be", "positive">>)
    ELSE IF includes(chars(p[1]), chars("index")) /\ p[2] = "number" /\ p[3] < 0
    THEN Err(ERROR_MESSAGES.INVALID_PARAMETER
             \o <<p[1], "must", "be", "non-negative">>)
    ELSE None

\* validateParams(params): Object.entries(params).forEach, which stops at the
\* first entry that throws
RECURSIVE validateEntries(_)
validateEntries(params) ==
    IF params = <<>> THEN None
    ELSE IF validateEntry(Head(params)) # None THEN validateEntry(Head(params))
    ELSE validateEntries(Tail(params))

\* locator.waitFor({state: 'attached'})
waitForAttached(status) ==
    CASE status = "absent" -> "timeout"
      [] status = "closed" -> "closed"
      [] OTHER -> "ok"

\* textContent / inputValue / getAttribute of a locator: the primitive waits
\* for the element to be attached, then answers with its content; `read` is
\* what the primitive does once the element is there
readContent(page, read) ==
    CASE page.status = "absent" -> Raises(MsgTimeout)
      [] page.status = "closed" -> Raises(MsgClosed)
      [] read # "ok" -> Raises(PrimitiveError(read).message)
      [] OTHER -> Answers(page.content)

\* locator.count()
locatorCount(page) ==
    CASE page.status = "closed" -> Raises(MsgClosed)
      [] page.status = "absent" -> Answers(0)
      [] OTHER -> Answers(page.matches)

\* String.trim over tokens: the blanks at both ends dropped
RECURSIVE trim(_)
trim(s) ==
    IF s # <<>> /\ Head(s) = " " THEN trim(Tail(s))
    ELSE IF s # <<>> /\ s[Len(s)] = " " THEN trim(SubSeq(s, 1, Len(s) - 1))
    ELSE s

\* classList.split(' '): the class names of a class attribute
split(s) == LET name(t) == t # " " IN SelectSeq(s, name)

----------------------------------------------------------------------------
(* ElementHelper: read operations *)

getElementText(a, page, read) ==
    LET invalid == validateEntries(<< <<"page", "given", 0>>,
                                      <<"element", a.element, 0>>,
                                      <<"index", "number", a.index>>,
                                      <<"timeout", "number", a.timeout>> >>)
        waited == waitForVisible(page.status)
        text == readContent(page, read)
        located == << <<"nth", a.index>>, <<"waitFor", a.index>> >>
    IN  IF invalid # None THEN Throws(invalid, <<>>)
        ELSE IF waited # "ok"
        THEN Throws(Err(createErrorMessage(<<"Get", "text">>, a.selector,
                                           PrimitiveError(waited).message)),
                    located)
        ELSE IF text.raises
        THEN Throws(Err(createErrorMessage(<<"Get", "text">>, a.selector,
                                           text.message)),
                    Append(located, <<"textContent", a.index>>))
        ELSE Returns(Value("string",
                           trim(IF text.value.null THEN <<>> ELSE text.value.s),
                           FALSE, 0),
                     Append(located, <<"textContent", a.index>>))

getInputValue(a, page, read) ==
    LET invalid == validateEntries(<< <<"page", "given", 0>>,
                                      <<"element", a.element, 0>>,
                                      <<"index", "number", a.index>>,
                                      <<"timeout", "number", a.timeout>> >>)
        waited == waitForVisible(page.status)
        value == readContent(page, read)
        located == << <<"nth", a.index>>, <<"waitFor", a.index>> >>
    IN  IF invalid # None THEN Throws(invalid, <<>>)
        ELSE IF waited # "ok"
        THEN Throws(Err(createErrorMessage(<<"Get", "input", "value">>,
                                           a.selector,
                                           PrimitiveError(waited).message)),
                    located)
        ELSE IF value.raises
        THEN Throws(Err(createErrorMessage(<<"Get", "input", "value">>,
                                           a.selector, value.message)),
                    Append(located, <<"inputValue", a.index>>))
        ELSE Returns(Value("string",
                           IF value.value.null THEN <<>> ELSE value.value.s,
                           FALSE, 0),
                     Append(located, <<"inputValue", a.index>>))

getElementAttribute(a, page, read) ==
    LET invalid == validateEntries(<< <<"page", "given", 0>>,
                                      <<"element", a.element, 0>>,
                                      <<"attribute", "given", 0>>,
                                      <<"index", "number", a.index>>,
                                      <<"timeout", "number", a.timeout>> >>)
        waited == waitForAttached(page.status)
        value == readContent(page, read)
        located == << <<"nth", a.index>>, <<"waitFor", a.index>> >>
    IN  IF invalid # None THEN Throws(invalid, <<>>)
        ELSE IF waited # "ok"
        THEN Throws(Err(createErrorMessage(<<"Get", "attribute">>, a.selector,
                                           PrimitiveError(waited).message)),
                    located)
        ELSE IF value.raises
        THEN Throws(Err(createErrorMessage(<<"Get", "attribute">>, a.selector,
                                           value.message)),
                    Append(located, <<"getAttribute", a.index>>))
        ELSE Returns(Value("string",
                           IF value.value.null THEN <<>> ELSE value.value.s,
                           FALSE, 0),
                     Append(located, <<"getAttribute", a.index>>))

\* hasClass(page, element, className, index): no timeout parameter, no wait
\* of its own, and a catch block that returns false
hasClass(a, className, page, read) ==
    LET invalid == validateEntries(<< <<"page", "given", 0>>,
                                      <<"element", a.element, 0>>,
                                      <<"className", "given", 0>>,
                                      <<"index", "number", a.index>> >>)
        classList == readContent(page, read)
        touched == << <<"nth", a.index>>, <<"getAttribute", a.index>> >>
    IN  IF invalid # None THEN Throws(invalid, <<>>)
        ELSE IF classList.raises
        THEN Returns(Value("boolean", <<>>, FALSE, 0), touched)
        ELSE IF classList.value.null \/ classList.value.s = <<>>
        THEN Returns(Value("boolean", <<>>, FALSE, 0), touched)
        ELSE Returns(Value("boolean", <<>>,
                           \E i \in 1..Len(split(classList.value.s)) :
                               split(classList.value.s)[i] = className,
                           0),
                     touched)

\* getElementCount(page, element): a catch block that returns 0
getElementCount(a, page) ==
    LET invalid == validateEntries(<< <<"page", "given", 0>>,
                                      <<"element", a.element, 0>> >>)
        n == locatorCount(page)
    IN  IF invalid # None THEN Throws(invalid, <<>>)
        ELSE IF n.raises
        THEN Returns(Value("number", <<>>, FALSE, 0), << <<"count", 0>> >>)
        ELSE Returns(Value("number", <<>>, FALSE, n.value), << <<"count", 0>> >>)

ReadOperations ==
    {"getElementText", "getInputValue", "getElementAttribute", "hasClass",
     "getElementCount"}

readOperation(name, a, page, read) ==
    CASE name = "getElementText" -> getElementText(a, page, read)
      [] name = "getInputValue" -> getInputValue(a, page, read)
      [] name = "getElementAttribute" -> getElementAttribute(a, page, read)
      [] name = "hasClass" -> hasClass(a, "active", page, read)
      [] OTHER -> getElementCount(a, page)

----------------------------------------------------------------------------
(* ElementHelper: checks and waits that return a boolean *)

\* the try block of waitForDisplayed: true when the wait for visibility succeeds, false on
\* any error of the wait
waitForDisplayed(waited) == waited = "ok"

\* the try block of isElementChecked: locator.isChecked(), or false when that raises
isElementChecked(checked, read) == IF read = "ok" THEN checked ELSE FALSE

StateChecks ==
    {"isElementDisplayed", "isElementHidden", "isElementVisible",
     "isElementEnabled", "isElementChecked"}

\* isElementDisplayed / isElementHidden (element, timeout) and
\* isElementVisible / isElementEnabled / isElementChecked (page, element,
\* index): validateParams, then a try block around one primitive whose catch
\* block returns false.  state is the enabled / checked state of the element.
stateCheck(name, a, page, read, state) ==
    LET invalid ==
            IF name \in {"isElementDisplayed", "isElementHidden"}
            THEN validateEntries(<< <<"element", a.element, 0>>,
                                    <<"timeout", "number", a.timeout>> >>)
            ELSE validateEntries(<< <<"page", "given", 0>>,
                                    <<"element", a.element, 0>>,
                                    <<"index", "number", a.index>> >>)
        attached == page.status \in {"hidden", "ready"}
        answer ==
            CASE name = "isElementDisplayed" ->
                    waitForDisplayed(waitForVisible(page.status))
              [] name = "isElementHidden" -> page.status \in {"absent", "hidden"}
              [] name = "isElementVisible" -> page.status = "ready" /\ read = "ok"
              [] name = "isElementEnabled" -> attached /\ read = "ok" /\ state
              [] OTHER ->
                    attached /\ isElementChecked(state, IF read = "ok" THEN "ok"
                                                        ELSE "raises")
        primitive ==
            CASE name \in {"isElementDisplayed", "isElementHidden"} -> "waitFor"
              [] name = "isElementVisible" -> "isVisible"
              [] name = "isElementEnabled" -> "isEnabled"
              [] OTHER -> "isChecked"
    IN  IF invalid # None THEN Throws(invalid, <<>>)
        ELSE Returns(Value("boolean", <<>>, answer, 0),
                     IF name \in {"isElementDisplayed", "isElementHidden"}
                     THEN << <<primitive, 0>> >>
                     ELSE << <<"nth", a.index>>, <<primitive, a.index>> >>)

BooleanWaits == {"waitForDisplayed", "waitForElementRemoved"}

\* waitForDisplayed / waitForElementRemoved (page, element, timeout)
booleanWait(name, a, page) ==
    LET invalid == validateEntries(<< <<"page", "given", 0>>,
                                      <<"element", a.element, 0>>,
                                      <<"timeout", "number", a.timeout>> >>)
    IN  IF invalid # None THEN Throws(invalid, <<>>)
        ELSE IF name = "waitForDisplayed"
        THEN Returns(Value("boolean", <<>>,
                           waitForDisplayed(waitForVisible(page.status)), 0),
                     << <<"waitFor", 0>> >>)
        ELSE Returns(Value("boolean", <<>>,
                           page.status \in {"absent", "hidden"}, 0),
                     << <<"waitForSelector", 0>> >>)

----------------------------------------------------------------------------
(* ElementHelper: interactions that run outside the retry engine *)

\* hoverElement: `acted` is what locator.hover does on a visible element
hoverElement(a, page, acted) ==
    LET invalid == validateEntries(<< <<"page", "given", 0>>,
                                      <<"element", a.element, 0>>,
                                      <<"index", "number", a.index>>,
                                      <<"timeout", "number", a.timeout>> >>)
        waited == waitForVisible(page.status)
        located == << <<"nth", a.index>>, <<"waitFor", a.index>> >>
    IN  IF invalid # None THEN Throws(invalid, <<>>)
        ELSE IF waited # "ok"
        THEN Throws(Err(createErrorMessage(<<"Hover">>, a.selector,
                                           PrimitiveError(waited).message)),
                    located)
        ELSE IF acted # "ok"
        THEN Throws(Err(createErrorMessage(<<"Hover">>, a.selector,
                                           PrimitiveError(acted).message)),
                    Append(located, <<"hover", a.index>>))
        ELSE Returns(Value("void", <<>>, FALSE, 0),
                     Append(located, <<"hover", a.index>>))

\* locator.selectOption({value}) / ({label}) on a visible <select>: it
\* selects the first option whose value / label is the one asked for, and
\* times out when there is none
selectOption(options, by, wanted) ==
    IF \E o \in options : o[IF by = "value" THEN 1 ELSE 2] = wanted
    THEN "ok" ELSE "timeout"

\* a slip: no fallback to the label
selectOptionValue_valueOnly(a, value, page, options) ==
    IF waitForVisible(page.status) = "ok" /\ selectOption(options, "value", value) = "ok"
    THEN Returns(Value("void", <<>>, FALSE, 0),
                 << <<"nth", a.index>>, <<"waitFor", a.index>>,
                    <<"selectOption value", a.index>> >>)
    ELSE Throws(Err(createErrorMessage(<<"Select", "option">>, a.selector,
                                       MsgTimeout)),
                << <<"nth", a.index>>, <<"waitFor", a.index>>,
                   <<"selectOption value", a.index>> >>)

selectOptionValue(a, value, page, options) ==
    LET invalid == validateEntries(<< <<"page", "given", 0>>,
                                      <<"element", a.element, 0>>,
                                      <<"value", "given", 0>>,
                                      <<"index", "number", a.index>>,
                                      <<"timeout", "number", a.timeout>> >>)
        waited == waitForVisible(page.status)
        located == << <<"nth", a.index>>, <<"waitFor", a.index>> >>
        byValue == Append(located, <<"selectOption value", a.index>>)
        byLabel == Append(byValue, <<"selectOption label", a.index>>)
    IN  IF invalid # None THEN Throws(invalid, <<>>)
        ELSE IF waited # "ok"
        THEN Throws(Err(createErrorMessage(<<"Select", "option">>, a.selector,
                                           PrimitiveError(waited).message)),
                    located)
        ELSE IF selectOption(options, "value", value) = "ok"
        THEN Returns(Value("void", <<>>, FALSE, 0), byValue)
        ELSE IF selectOption(options, "label", value) = "ok"
        THEN Returns(Value("void", <<>>, FALSE, 0), byLabel)
        ELSE Throws(Err(createErrorMessage(
                            <<"Select", "option">>, a.selector,
                            PrimitiveError(selectOption(options, "label", value)).message)),
                    byLabel)

\* dragAndDrop(page, source, target, sourceIndex, targetIndex, timeout): the
\* page holds the source and the target alike; `acted` is what dragTo does
dragAndDrop(a, targetIndex, page, acted) ==
    LET invalid == validateEntries(<< <<"page", "given", 0>>,
                                      <<"source", a.element, 0>>,
                                      <<"target", "given", 0>>,
                                      <<"sourceIndex", "number", a.index>>,
                                      <<"targetIndex", "number", targetIndex>>,
                                      <<"timeout", "number", a.timeout>> >>)
        waited == waitForVisible(page.status)
        located == << <<"nth", a.index>>, <<"nth", targetIndex>>,
                      <<"waitFor", a.index>> >>
        failure(m) == Err(<<"Drag", "and", "drop", "failed", "from", a.selector,
                            "to", a.selector, ":">> \o m)
    IN  IF invalid # None THEN Throws(invalid, <<>>)
        ELSE IF waited # "ok"
        THEN Throws(failure(PrimitiveError(waited).message), located)
        ELSE IF acted # "ok"
        THEN Throws(failure(PrimitiveError(acted).message),
                    located \o << <<"waitFor", targetIndex>>, <<"dragTo", a.index>> >>)
        ELSE Returns(Value("void", <<>>, FALSE, 0),
                     located \o << <<"waitFor", targetIndex>>, <<"dragTo", a.index>> >>)

\* a slip: the enabled state checked before the visibility wait
smartWaitForElementWith_enabledFirst(e, conditions, page, state) ==
    LET attached == page.status \in {"hidden", "ready"}
    IN  IF conditions.enabled = "true" /\ ~(attached /\ state)
        THEN Throws(Err(MsgTimeout), << <<"toBeEnabled", 0>> >>)
        ELSE IF conditions.visible # "false" /\ waitForVisible(page.status) # "ok"
        THEN Throws(PrimitiveError(waitForVisible(page.status)),
                    (IF conditions.enabled = "true"
                     THEN << <<"toBeEnabled", 0>> >> ELSE <<>>)
                      \o << <<"waitFor", 0>> >>)
        ELSE Returns(Value("void", <<>>, FALSE, 0),
                     (IF conditions.enabled = "true"
                      THEN << <<"toBeEnabled", 0>> >> ELSE <<>>)
                       \o (IF conditions.visible # "false"
                           THEN << <<"waitFor", 0>> >> ELSE <<>>))

\* smartWaitForElement(elementLocator, conditions, timeout) for any
\* conditions, each "true", "false" or "unset" (left out of the object):
\*   const { visible = true, stable = false, enabled = false,
\*           hasText = false } = conditions
\* state is the enabled state of the element; expect(...).toBeEnabled and
\* expect(...).not.toBeEmpty raise when the expectation is not met in time.
smartWaitForElementWith(e, conditions, page, state) ==
    LET visible == conditions.visible # "false"
        stable == conditions.stable = "true"
        enabled == conditions.enabled = "true"
        hasText == conditions.hasText = "true"
        attached == page.status \in {"hidden", "ready"}
        waited == waitForVisible(page.status)
        t1 == IF visible THEN << <<"waitFor", 0>> >> ELSE <<>>
        t2 == t1 \o (IF stable /\ (ENABLE_HEALTH_CHECKS(e)
                                   \/ conditions.stable = "true")
                     THEN << <<"setTimeout", 0>> >> ELSE <<>>)
        t3 == t2 \o (IF enabled THEN << <<"toBeEnabled", 0>> >> ELSE <<>>)
        t4 == t3 \o (IF hasText THEN << <<"not.toBeEmpty", 0>> >> ELSE <<>>)
        gone == IF page.status = "closed" THEN Err(MsgClosed) ELSE Err(MsgTimeout)
    IN  IF visible /\ waited # "ok" THEN Throws(PrimitiveError(waited), t1)
        ELSE IF enabled /\ ~(attached /\ state) THEN Throws(gone, t3)
        ELSE IF hasText /\ ~(attached /\ ~page.content.null /\ page.content.s # <<>>)
        THEN Throws(gone, t4)
        ELSE Returns(Value("void", <<>>, FALSE, 0), t4)

\* A call as lastOp records it: its name and arguments, the page it met,
\* what the primitive it ends with did (read), the enabled or checked state
\* of the element (state), the value asked of a dropdown and the options
\* the dropdown has, each <<value, label>>, the index of the target of a
\* drag (args.index being the index of its source), the conditions asked of
\* a smart wait, what the page shows to the inspection of a logError call
\* (its url and title, and the one element on it that matches an error
\* selector, if any), and its outcome.
NoOp ==
    [name |-> "none",
     args |-> [selector |-> "#submit", element |-> "given", index |-> 0,
               timeout |-> 0],
     page |-> [status |-> "ready", content |-> Null, matches |-> 1],
     read |-> "ok", state |-> FALSE, value |-> "", options |-> {},
     targetIndex |-> 0,
     conditions |-> [visible |-> "unset", stable |-> "unset",
                     enabled |-> "unset", hasText |-> "unset"],
     shown |-> [url |-> <<>>, title |-> <<>>, selector |-> <<>>,
                visible |-> FALSE, text |-> <<>>],
     outcome |-> Returns(Value("void", <<>>, FALSE, 0), <<>>)]

----------------------------------------------------------------------------
(* Specification of one call (a retry run, a click or a fill), possibly     *)
(* after a beforeEach hook has started a test.                              *)

BeforeEach(t) ==
    /\ pc = "idle"
    /\ currentTest = ""
    /\ currentTest' = t
    /\ logs' = initializeTest(logs, t)
    /\ UNCHANGED <<env, pc, call, attempt, lastError, pending, engine, result,
                   last, invocations, raised, pagesSeen, delays, prims,
                   side>>


\* every variable but env and the two that describe a scenario (checkboxes,
\* tasks), before any call; p is where the driver stands
Start(p) ==
    /\ logs = <<>>
    /\ currentTest = ""
    /\ pc = p
    /\ call = NoCall
    /\ attempt = 0
    /\ lastError = Undefined
    /\ pending = 0
    /\ engine = [status |-> "none", error |-> None]
    /\ result = [status |-> "none", error |-> None]
    /\ last = Invocation(FALSE, None, "ready", <<>>, <<>>)
    /\ invocations = 0
    /\ raised = {}
    /\ pagesSeen = {}
    /\ delays = <<>>
    /\ prims = <<>>
    /\ attachments = NoAttachments
    /\ removed = 0
    /\ health = NoHealthCall
    /\ toggles = <<>>
    /\ lastOp = NoOp

Init ==
    /\ env \in EnvSettings
    /\ checkboxes = <<>>
    /\ tasks = <<>>
    /\ Start("idle")

Next ==
    \/ \E t \in CallTests : BeforeEach(t)
    \/ \E m \in 0..MaxRetriesArg, b \in 0..MaxBaseDelayIdx :
          RetryOperation(m, 250 * b)
    \/ \E s \in Selectors, i \in (-1)..MaxIndex : ClickElement(s, i)
    \/ \E s \in Selectors, v \in Values, i \in (-1)..MaxIndex : EnterValue(s, v, i)
    \/ Attempt
    \/ Backoff

Spec == Init /\ [][Next]_vars

----------------------------------------------------------------------------
(* Specification of one click or fill in which every page primitive awaited *)
(* returns or times out (an attempt that has started ends) and the backoff  *)
(* timer fires                                                              *)

NextFacade ==
    \/ \E s \in Selectors, i \in (-1)..MaxIndex : ClickElement(s, i)
    \/ \E s \in Selectors, v \in Values, i \in (-1)..MaxIndex : EnterValue(s, v, i)
    \/ Attempt
    \/ Backoff

SpecFacade ==
    Init /\ [][NextFacade]_vars /\ WF_vars(Attempt) /\ WF_vars(Backoff)

----------------------------------------------------------------------------
(* Specification of clicks alone, with the detailed-checks flag on or off   *)
(* and one to three attempts configured                                     *)

InitClick ==
    /\ env \in [PERFORMANCE_MONITORING : {"unset", "false"},
                 VALUE_VERIFICATION : {"unset"},
                 DETAILED_HEALTH_CHECKS : {"unset", "true"},
                 TEST_RETRIES : {EnvUnset, EnvNumber(2), EnvNumber(3)}]
    /\ checkboxes = <<>>
    /\ tasks = <<>>
    /\ Start("idle")

NextClick ==
    \/ \E s \in Selectors, i \in (-1)..MaxIndex : ClickElement(s, i)
    \/ Attempt
    \/ Backoff

SpecClick == InitClick /\ [][NextClick]_vars

----------------------------------------------------------------------------
(* Specification of fills alone, with value verification on or off, two or  *)
(* three attempts configured, and a value that reads like an error text     *)

InitFill ==
    /\ env \in [PERFORMANCE_MONITORING : {"unset"},
                 VALUE_VERIFICATION : {"unset", "true"},
                 DETAILED_HEALTH_CHECKS : {"unset"},
                 TEST_RETRIES : {EnvNumber(2), EnvNumber(3)}]
    /\ checkboxes = <<>>
    /\ tasks = <<>>
    /\ Start("idle")

NextFill ==
    \/ \E s \in Selectors, v \in {ValSix, <<"Navigation", "failed">>},
          i \in (-1)..MaxIndex :
            EnterValue(s, v, i)
    \/ Attempt
    \/ Backoff

SpecFill == InitFill /\ [][NextFill]_vars

----------------------------------------------------------------------------
(* Specification of the health check alone *)

InspectionMessages == {MsgTimeout, MsgClosed}

CountAnswers ==
    {Answers(n) : n \in 0..MaxMatches} \cup {Raises(m) : m \in InspectionMessages}
FlagAnswers ==
    {Answers(b) : b \in BOOLEAN} \cup {Raises(m) : m \in InspectionMessages}

CheckElementHealth(operationType, count, isVisible, isEnabled) ==
    /\ pc = "health"
    /\ ~health.called
    /\ health' = [called |-> TRUE, operationType |-> operationType,
                  count |-> count, isVisible |-> isVisible,
                  isEnabled |-> isEnabled,
                  outcome |-> checkElementHealth(env, operationType, count,
                                                 isVisible, isEnabled)]
    /\ UNCHANGED <<env, logs, currentTest, call, facade, attachments, removed,
                   checkboxes, toggles, lastOp, tasks>>

InitHealth ==
    /\ env \in [PERFORMANCE_MONITORING : {"unset"}, VALUE_VERIFICATION : {"unset"},
                 DETAILED_HEALTH_CHECKS : {"unset", "true", "false"},
                 TEST_RETRIES : {EnvUnset}]
    /\ checkboxes = <<>>
    /\ tasks = <<>>
    /\ Start("health")

NextHealth ==
    \E operationType \in {"click", "fill", "read"}, count \in CountAnswers,
       isVisible \in FlagAnswers, isEnabled \in FlagAnswers :
        CheckElementHealth(operationType, count, isVisible, isEnabled)

SpecHealth == InitHealth /\ [][NextHealth]_vars

----------------------------------------------------------------------------
(* ElementHelper.toggleCheckbox, and the specification of toggle calls      *)
(* alone on a page of checkboxes.                                           *)

\* locator.check() / locator.uncheck(): the state they leave when they
\* succeed; a box already in the wanted state is left alone
afterCheck(checked) == TRUE
afterUncheck(checked) == FALSE

\* The whole call on a box whose state is `checked`: waited, read and acted
\* are what the visibility wait, the isChecked read and the check/uncheck
\* primitive do.  Yields the outcome and the state of the box afterwards.
toggleCheckbox(selector, index, checked, waited, read, acted) ==
    IF validateParams(index) # None
    THEN [status |-> "threw", error |-> validateParams(index), after |-> checked]
    ELSE IF ~waitForDisplayed(waited)
    THEN [status |-> "threw",
          error |-> Err(createErrorMessage(<<"Toggle", "checkbox">>, selector,
                            ERROR_MESSAGES.ELEMENT_NOT_VISIBLE
                              \o <<"at", "index", ToString(index)>>)),
          after |-> checked]
    ELSE IF acted # "ok"
    THEN [status |-> "threw",
          error |-> Err(createErrorMessage(<<"Toggle", "checkbox">>, selector,
                            PrimitiveError(acted).message)),
          after |-> checked]
    ELSE [status |-> "returned", error |-> None,
          after |-> IF isElementChecked(checked, read)
                    THEN afterUncheck(checked) ELSE afterCheck(checked)]

ToggleCheckbox(selector, index, waited, read, acted) ==
    /\ pc = "toggle"
    /\ Len(toggles) < MaxToggles
    /\ LET before == IF index \in DOMAIN checkboxes THEN checkboxes[index]
                     ELSE FALSE
           done == toggleCheckbox(selector, index, before, waited, read, acted)
       IN  /\ checkboxes' = IF index \in DOMAIN checkboxes
                            THEN [checkboxes EXCEPT ![index] = done.after]
                            ELSE checkboxes
           /\ toggles' = Append(toggles,
                                [index |-> index, before |-> before,
                                 read |-> read, status |-> done.status,
                                 error |-> done.error, after |-> done.after])
    /\ UNCHANGED <<env, logs, currentTest, call, facade, attachments, removed,
                   health, lastOp, tasks>>

InitToggle ==
    /\ env = DefaultEnv
    /\ checkboxes \in [0..MaxBox -> BOOLEAN]
    /\ tasks = <<>>
    /\ Start("toggle")

NextToggle ==
    \E s \in Selectors, i \in (-1)..MaxBox, waited \in PrimitiveOutcome,
       read \in {"ok", "raises"}, acted \in PrimitiveOutcome :
        ToggleCheckbox(s, i, waited, read, acted)

SpecToggle == InitToggle /\ [][NextToggle]_vars

----------------------------------------------------------------------------
(* Specification of the logger alone: any sequence of initializeTest, log,  *)
(* logUserAction, exportForReporting and clearTestLogs calls.               *)

LoggerCall(name) ==
    /\ pc = "logger"
    /\ call' = [NoCall EXCEPT !.kind = name]
    /\ UNCHANGED <<env, facade, health, checkboxes, toggles, lastOp, tasks>>

InitializeTest(t) ==
    /\ LoggerCall("initializeTest")
    /\ Len(logs) < MaxLogs
    /\ currentTest' = t
    /\ logs' = initializeTest(logs, t)
    /\ attachments' = NoAttachments
    /\ removed' = 0

Log(level, message) ==
    /\ LoggerCall("log")
    /\ Len(logs) < MaxLogs
    /\ logs' = log(logs, currentTest, level, message, NoContext)
    /\ attachments' = NoAttachments
    /\ removed' = 0
    /\ UNCHANGED currentTest

LogUserAction(action, element, value) ==
    /\ LoggerCall("logUserAction")
    /\ Len(logs) < MaxLogs
    /\ logs' = logUserAction(logs, currentTest, action, element, value)
    /\ attachments' = NoAttachments
    /\ removed' = 0
    /\ UNCHANGED currentTest

ExportForReporting ==
    /\ LoggerCall("exportForReporting")
    /\ attachments' = exportForReporting(logs, currentTest)
    /\ removed' = 0
    /\ UNCHANGED <<logs, currentTest>>

ClearTestLogs ==
    /\ LoggerCall("clearTestLogs")
    /\ logs' = clearTestLogs(logs, currentTest)
    /\ removed' = Len(logs) - Len(logs')
    /\ attachments' = NoAttachments
    /\ UNCHANGED currentTest

InitLogger ==
    /\ env = DefaultEnv
    /\ checkboxes = <<>>
    /\ tasks = <<>>
    /\ Start("logger")

NextLogger ==
    \/ \E t \in Tests : InitializeTest(t)
    \/ \E level \in {"WARN", "ERROR"} : Log(level, <<"Timeout", "exceeded">>)
    \/ \E v \in {<<>>, ValLong} : LogUserAction("fill", "#submit", v)
    \/ ExportForReporting
    \/ ClearTestLogs

SpecLogger == InitLogger /\ [][NextLogger]_vars

----------------------------------------------------------------------------
(* Specification of the calls that run outside the retry engine, one call   *)
(* at a time, each on a page of its own.                                    *)

DirectArgs ==
    [selector : Selectors, element : {"given", "null"},
     index : (-1)..MaxIndex, timeout : {-1, 0, 5000}]

DirectPages ==
    [status : {"absent", "closed"}, content : {Null}, matches : {0}]
    \cup
    [status : {"hidden", "ready"},
     content : {Null, Str(<<>>), Str(<<" ", "Save", " ">>),
                Str(<<"btn", " ", "active">>)},
     matches : 1..MaxMatches]

\* a call that leaves the logger and every other component alone; one call
\* is followed per behaviour, each call being independent of the others
DirectCall ==
    /\ pc = "direct"
    /\ lastOp.name = "none"
    /\ UNCHANGED <<env, logs, currentTest, call, facade, attachments, removed,
                   health, checkboxes, toggles, tasks>>

ReadCall(name, a, page, read) ==
    /\ DirectCall
    /\ lastOp' = [NoOp EXCEPT !.name = name, !.args = a, !.page = page,
                              !.read = read,
                              !.outcome = readOperation(name, a, page, read)]

HoverElement(a, page, acted) ==
    /\ DirectCall
    /\ lastOp' = [NoOp EXCEPT !.name = "hoverElement", !.args = a,
                              !.page = page, !.read = acted,
                              !.outcome = hoverElement(a, page, acted)]

Options == {<<"1", "Uncategorized">>, <<"2", "News">>, <<"News", "Latest">>}

SelectOptionValue(a, value, page, options) ==
    /\ DirectCall
    /\ lastOp' = [NoOp EXCEPT !.name = "selectOptionValue", !.args = a,
                              !.page = page, !.value = value,
                              !.options = options,
                              !.outcome = selectOptionValue(a, value, page, options)]

DragAndDrop(a, targetIndex, page, acted) ==
    /\ DirectCall
    /\ lastOp' = [NoOp EXCEPT !.name = "dragAndDrop", !.args = a,
                              !.targetIndex = targetIndex, !.page = page,
                              !.read = acted,
                              !.outcome = dragAndDrop(a, targetIndex, page, acted)]

Conditions ==
    [visible : {"unset", "true", "false"}, stable : {"unset", "true", "false"},
     enabled : {"unset", "true", "false"}, hasText : {"unset", "true", "false"}]

SmartWaitForElement(conditions, page, state) ==
    /\ DirectCall
    /\ lastOp' = [NoOp EXCEPT !.name = "smartWaitForElement",
                              !.conditions = conditions, !.page = page,
                              !.state = state,
                              !.outcome = smartWaitForElementWith(
                                              env, conditions, page, state)]

\* SmartLogger.logError(error, page) on a page showing one message element
LogErrorOn(error, shown) ==
    /\ pc = "direct"
    /\ lastOp' = [NoOp EXCEPT !.name = "logError", !.shown = shown]
    /\ logs' = logErrorOn(logs, currentTest, error, shown)
    /\ UNCHANGED <<env, currentTest, call, facade, attachments, removed,
                   health, checkboxes, toggles, tasks>>

BooleanCall(name, a, page, read, state) ==
    /\ DirectCall
    /\ lastOp' = [NoOp EXCEPT !.name = name, !.args = a, !.page = page,
                              !.read = read, !.state = state,
                              !.outcome = IF name \in StateChecks
                                          THEN stateCheck(name, a, page, read, state)
                                          ELSE booleanWait(name, a, page)]

InitDirect ==
    /\ env \in [PERFORMANCE_MONITORING : {"unset"}, VALUE_VERIFICATION : {"unset"},
                 DETAILED_HEALTH_CHECKS : {"unset", "true"},
                 TEST_RETRIES : {EnvUnset}]
    /\ checkboxes = <<>>
    /\ tasks = <<>>
    /\ Start("direct")

NextDirect ==
    /\ lastOp.name = "none"
    /\ \/ \E name \in ReadOperations, a \in DirectArgs, page \in DirectPages,
             read \in PrimitiveOutcome :
               ReadCall(name, a, page, read)
       \/ \E a \in DirectArgs, page \in DirectPages, acted \in PrimitiveOutcome :
               HoverElement(a, page, acted)
       \/ \E name \in StateChecks \cup BooleanWaits, a \in DirectArgs,
             page \in DirectPages, read \in PrimitiveOutcome, state \in BOOLEAN :
               BooleanCall(name, a, page, read, state)
       \/ \E a \in DirectArgs, value \in {"Uncategorized", "News", "3"},
             page \in DirectPages, options \in SUBSET Options :
               SelectOptionValue(a, value, page, options)
       \/ \E a \in DirectArgs, targetIndex \in (-1)..MaxIndex,
             page \in DirectPages, acted \in PrimitiveOutcome :
               DragAndDrop(a, targetIndex, page, acted)
       \/ \E conditions \in Conditions, page \in DirectPages, state \in BOOLEAN :
               SmartWaitForElement(conditions, page, state)
       \/ \E m \in {MsgTimeout, MsgNotVisible},
             url \in {<<"https://staging.site/", "wp-login.php">>,
                      <<"https://staging.site/", "wp-admin/">>},
             selector \in {errorSelectors[i] : i \in 1..Len(errorSelectors)}
                            \cup {<<".", "notice">>},
             visible \in BOOLEAN :
               LogErrorOn(Err(m),
                          [url |-> url, title |-> <<"Log", "In">>,
                           selector |-> selector, visible |-> visible,
                           text |-> <<"Invalid", "username", "or", "password">>])

SpecDirect == InitDirect /\ [][NextDirect]_vars

----------------------------------------------------------------------------
(* Specification of two logical tests sharing the process-wide SmartLogger, *)
(* each running initializeTest, then log calls (its own and those of the    *)
(* facade calls it awaits), then exportForReporting and clearTestLogs; a    *)
(* test is suspended between any two of its calls, where the other may run. *)

TaskStep(t, from, to, steps) ==
    /\ pc = "interleave"
    /\ tasks[t].pc = from
    /\ tasks' = [tasks EXCEPT ![t] = [pc |-> to, steps |-> steps]]
    /\ UNCHANGED <<env, call, facade, health, checkboxes, toggles, lastOp>>

TaskInitializeTest(t) ==
    /\ TaskStep(t, "fresh", "running", 0)
    /\ currentTest' = t
    /\ logs' = initializeTest(logs, t)
    /\ UNCHANGED <<attachments, removed>>

\* a log call test t makes; the message names the test that emits it
TaskLog(t) ==
    /\ tasks[t].steps < MaxSteps
    /\ TaskStep(t, "running", "running", tasks[t].steps + 1)
    /\ logs' = log(logs, currentTest, "INFO", <<"step", "of", t>>, NoContext)
    /\ UNCHANGED <<currentTest, attachments, removed>>

TaskExportForReporting(t) ==
    /\ TaskStep(t, "running", "exported", tasks[t].steps)
    /\ attachments' = exportForReporting(logs, currentTest)
    /\ UNCHANGED <<logs, currentTest, removed>>

TaskClearTestLogs(t) ==
    /\ TaskStep(t, "exported", "done", tasks[t].steps)
    /\ logs' = clearTestLogs(logs, currentTest)
    /\ removed' = Len(logs) - Len(logs')
    /\ UNCHANGED <<currentTest, attachments>>

InitInterleave ==
    /\ env = DefaultEnv
    /\ checkboxes = <<>>
    /\ tasks = [t \in Tests |-> [pc |-> "fresh", steps |-> 0]]
    /\ Start("interleave")

NextInterleave ==
    \E t \in Tests :
        \/ TaskInitializeTest(t)
        \/ TaskLog(t)
        \/ TaskExportForReporting(t)
        \/ TaskClearTestLogs(t)

SpecInterleave == InitInterleave /\ [][NextInterleave]_vars

----------------------------------------------------------------------------
(* Specification of logError calls alone *)

LogError(error, inspection) ==
    /\ pc = "logError"
    /\ Len(logs) < MaxLogs
    /\ logs' = logError(logs, currentTest, error, inspection)
    /\ lastOp' = [NoOp EXCEPT !.name = "logError", !.read = inspection]
    /\ UNCHANGED <<env, currentTest, call, facade, attachments, removed, health,
                   checkboxes, toggles, tasks>>

InitLogError ==
    /\ env = DefaultEnv
    /\ checkboxes = <<>>
    /\ tasks = <<>>
    /\ Start("logError")

NextLogError ==
    \E m \in {MsgTimeout, MsgClosed},
       inspection \in {"none", "off", "ok", "degraded", "fails"} :
        LogError(Err(m), inspection)

SpecLogError == InitLogError /\ [][NextLogError]_vars

----------------------------------------------------------------------------
(* Properties of the retry engine *)

\* The error messages the unrecoverable patterns are meant to catch, among
\* the messages an operation raises here, whatever their letter case.
FatalMessages ==
    {MsgNotFound, MsgNotFoundUpper, MsgClosed, MsgPageClosed, MsgNavigation,
     MsgDns, MsgRefused}

RunOver == pc = "done" /\ engine.status # "none"

count(buffer, level) == Len(ofLevel(buffer, level))

RECURSIVE SumSeq(_)
SumSeq(q) == IF q = <<>> THEN 0 ELSE Head(q) + SumSeq(Tail(q))

\* C1: an invocation that fails with a message matching an unrecoverable
\* pattern (in any letter case) ends the run at once, for every
\* maxRetries >= 1: the engine throws that very error in the same step, and
\* once the engine has thrown, the operation is never invoked again; so such
\* a failure on the first attempt leaves exactly one invocation.
C1_FailFast ==
    [][ /\ ( /\ invocations' = invocations + 1
             /\ ~last'.ok
             /\ last'.error.message \in FatalMessages
             /\ call.maxRetries >= 1 )
           => ( /\ pc' = "done"
                /\ engine'.status = "threw"
                /\ engine'.error = last'.error
                /\ delays' = delays
                /\ pending' = pending )
        /\ (engine.status = "threw" => invocations' = invocations)
      ]_vars

C1_Witness ==
    /\ RunOver
    /\ call.maxRetries >= 3
    /\ invocations = 1
    /\ last.error.message = MsgNotFoundUpper
    /\ engine.status = "threw"

\* C2: one run invokes the operation at most maxRetries times (for
\* maxRetries >= 1), and exactly maxRetries times when the run ends with every
\* invocation having failed with a recoverable error.
C2_RetryBound ==
    (call.kind # "none" /\ call.maxRetries >= 1) =>
        /\ invocations <= call.maxRetries
        /\ ( /\ RunOver
             /\ engine.status = "threw"
             /\ raised \cap FatalMessages = {} )
           => invocations = call.maxRetries

C2_Witness ==
    /\ RunOver
    /\ engine.status = "threw"
    /\ call.maxRetries = 3
    /\ invocations = 3
    /\ raised \cap FatalMessages = {}

\* C3: the k-th delay waited in a run is 100 for k = 1 and
\* baseDelay * 2^(k-2) for k >= 2; a finished run of n invocations has waited
\* exactly n - 1 delays (none after the final attempt, whether it succeeded,
\* failed for the last time or failed unrecoverably), so the total delay is
\* 100 + baseDelay * (2^(n-2) - 1) for n >= 2 and 0 for n <= 1.
C3_BackoffSchedule ==
    /\ \A k \in 1..Len(delays) :
          delays[k] = IF k = 1 THEN 100 ELSE call.baseDelay * 2 ^ (k - 2)
    /\ (RunOver /\ invocations >= 1) =>
          /\ Len(delays) = invocations - 1
          /\ SumSeq(delays) = IF invocations <= 1 THEN 0
                              ELSE 100 + call.baseDelay * (2 ^ (invocations - 2) - 1)

C3_Witness ==
    /\ RunOver
    /\ engine.status = "threw"
    /\ Len(delays) = 2
    /\ call.baseDelay = 500
    /\ delays[2] = 500

----------------------------------------------------------------------------
(* Properties of click and fill *)

occurrences(q, x) == Cardinality({i \in 1..Len(q) : q[i] = x})

\* C4: a click whose selector matches no element at the index during the
\* whole call raises an ELEMENT_NOT_FOUND error, classified unrecoverable, on
\* the first attempt, for every configured retry count: the resolve-and-wait
\* step runs exactly once and the click primitive is never invoked.
C4_ZeroMatchFailsFast ==
    (RunOver /\ call.kind = "click" /\ invocations >= 1 /\ pagesSeen = {"absent"}) =>
        /\ engine.status = "threw"
        /\ includes(toLowerCase(engine.error.message),
                    toLowerCase(ERROR_MESSAGES.ELEMENT_NOT_FOUND))
        /\ invocations = 1
        /\ occurrences(prims, "waitFor") = 1
        /\ occurrences(prims, "click") = 0

\* entries reporting success: INFO entries other than 'Test started'
successEntries(buffer) ==
    LET good(e) == e.level = "INFO" /\ e.message # <<"Test", "started">>
    IN  Len(SelectSeq(buffer, good))

\* C5 as stated, for the operations the code runs through the engine (click
\* and fill) and k >= 1: a run that fails k times with a recoverable error and
\* then succeeds makes k+1 invocations, appends k WARN entries and exactly
\* one success entry, and returns.
C5_OneSuccessEntry ==
    (RunOver /\ engine.status = "returned" /\ call.kind \in {"click", "fill"}
        /\ invocations >= 2) =>
        /\ invocations >= 1
        /\ count(logs, "WARN") = invocations - 1
        /\ successEntries(logs) = 1
        /\ result.status = "returned"

\* C5, amended: such a run makes k+1 invocations, appends exactly k WARN
\* entries and returns; the success entries are the operation's own entry
\* (one for a click or a fill, none for a bare operation) plus the engine's
\* 'completed' entry, which is written when performance monitoring is not
\* disabled and k >= 1, and never when it is disabled.
C5_RetriesThenSuccess ==
    (RunOver /\ engine.status = "returned") =>
        LET own == IF call.kind \in {"click", "fill"} THEN 1 ELSE 0
            monitored == env.PERFORMANCE_MONITORING # "false"
        IN  /\ invocations >= 1
            /\ invocations <= call.maxRetries
            /\ count(logs, "WARN") = invocations - 1
            /\ result.status = "returned"
            /\ successEntries(logs) \in {own, own + 1}
            /\ (monitored /\ invocations > 1) => successEntries(logs) = own + 1
            /\ ~monitored => successEntries(logs) = own

C5_Witness ==
    /\ RunOver
    /\ engine.status = "returned"
    /\ call.kind = "click"
    /\ call.maxRetries = 3
    /\ invocations = 3
    /\ count(logs, "WARN") = 2
    /\ successEntries(logs) = 2

\* the raw value appears in the text
leaks(text, value) == includes(text, value)

entryLeaks(e, value) ==
    \/ leaks(e.message, value)
    \/ leaks(e.context.value, value)
    \/ leaks(e.context.errorMessage, value)
    \/ leaks(e.context.stack, value)

attachmentLeaks(a, value) ==
    \E view \in {a.raw, a.summary, a.timeline, a.actions, a.errorAnalysis} :
        \E i \in 1..Len(view) : leaks(view[i].text, value)

\* C8: while and after a fill of a value that is sensitive (it contains
\* "password" in any letter case or is longer than 6 characters), no log
\* entry and no attachment exportForReporting would return holds the raw
\* value.
C8_NoRawSensitiveValue ==
    (call.kind = "fill" /\ call.value \in {ValPassword, ValLong}) =>
        /\ \A i \in 1..Len(logs) : ~entryLeaks(logs[i], call.value)
        /\ ~attachmentLeaks(exportForReporting(logs, currentTest), call.value)

----------------------------------------------------------------------------
(* Properties of the logger *)

RECURSIVE KeepOthers(_, _)
KeepOthers(q, t) ==
    IF q = <<>> THEN <<>>
    ELSE IF Head(q).testName = t THEN KeepOthers(Tail(q), t)
    ELSE <<Head(q)>> \o KeepOthers(Tail(q), t)

\* C6: a clearTestLogs call leaves in the buffer exactly the entries tagged
\* with a context other than the active one, unchanged and in their order,
\* does not change the active context, and an exportForReporting call made
\* next returns every one of them in its raw log attachment.
C6_ClearScoped ==
    [][ call'.kind = "clearTestLogs" =>
          /\ currentTest' = currentTest
          /\ logs' = KeepOthers(logs, currentTest)
          /\ LET raw == exportForReporting(logs', currentTest').raw
             IN  /\ Len(raw) = Len(logs')
                 /\ \A i \in 1..Len(raw) : raw[i] = renderEntry(logs'[i])
      ]_vars

C6_Witness ==
    /\ call.kind = "clearTestLogs"
    /\ removed >= 2
    /\ Len(logs) >= 2
    /\ \E i \in 1..Len(logs) : logs[i].level = "ACTION"

\* C7: every entry rendered in an attachment exportForReporting returns (raw
\* log, summary, timeline, action steps, error analysis) comes from a log
\* entry tagged with the test context that was active at the export.
C7_ExportOnlyCurrent ==
    attachments.exported =>
        \A view \in {attachments.raw, attachments.summary, attachments.timeline,
                     attachments.actions, attachments.errorAnalysis} :
            \A i \in 1..Len(view) : view[i].origin = attachments.testName

----------------------------------------------------------------------------
(* Properties of the health check *)

\* the inspection call that raises first among the calls the check makes
C9_Failure ==
    IF health.count.raises THEN health.count
    ELSE IF health.count.value = 0 THEN Answers(0)
    ELSE IF health.isVisible.raises THEN health.isVisible
    ELSE IF health.operationType \in {"click", "fill"} /\ health.isVisible.value
            /\ health.isEnabled.raises
    THEN health.isEnabled
    ELSE Answers(0)

\* C9: checkElementHealth never raises: whatever the match count, the
\* visibility, the enabled state, the operation kind and the inspection call
\* that raises, it returns a report with a boolean healthy and a list of
\* issues; when an inspection call it makes raises, the report is exactly
\* healthy = true with the single issue "Health check skipped: <message>".
C9_HealthNeverThrows ==
    health.called =>
        /\ ~health.outcome.threw
        /\ health.outcome.healthy \in BOOLEAN
        /\ \A i \in 1..Len(health.outcome.issues) :
              Len(health.outcome.issues[i]) > 0
        /\ (env.DETAILED_HEALTH_CHECKS = "true" /\ C9_Failure.raises) =>
              /\ health.outcome.healthy
              /\ health.outcome.issues =
                    << <<"Health", "check", "skipped:">> \o C9_Failure.message >>

C9_Witness ==
    /\ health.called
    /\ env.DETAILED_HEALTH_CHECKS = "true"
    /\ health.operationType = "click"
    /\ health.count = Answers(2)
    /\ health.isVisible = Answers(TRUE)
    /\ health.isEnabled = Raises(MsgClosed)
    /\ health.outcome.healthy
    /\ Len(health.outcome.issues) = 1

----------------------------------------------------------------------------
(* Properties of toggleCheckbox *)

\* C10: two successive toggleCheckbox calls on the same visible checkbox
\* that both succeed leave it in the checked state it had before the first,
\* whatever the checked-state read did in either call (answered or raised).
C10_ToggleTwiceRestores ==
    \A k \in 1..(Len(toggles) - 1) :
        ( /\ toggles[k].status = "returned"
          /\ toggles[k + 1].status = "returned"
          /\ toggles[k].index = toggles[k + 1].index )
        => toggles[k + 1].after = toggles[k].before

----------------------------------------------------------------------------
(* Properties of the read operations *)

validArgs(a) == a.element = "given" /\ a.index >= 0 /\ a.timeout >= 0

\* the read could not determine its answer: the page is gone, the element
\* is not there (for a count, no match is an answer), the wait a text or
\* value read makes for visibility times out, or the read primitive raises
cannotDetermine(op) ==
    \/ op.page.status = "closed"
    \/ op.page.status = "absent" /\ op.name # "getElementCount"
    \/ op.page.status = "hidden" /\ op.name \in {"getElementText", "getInputValue"}
    \/ op.read # "ok" /\ op.name # "getElementCount"

\* C11: a read operation (text, input value, attribute, class test, count)
\* called with valid arguments throws whenever it could not determine its
\* answer, and returns otherwise; so a returned default (empty string, false,
\* 0) always means an element that was resolved and whose data is absent.
C11_ReadDefaults ==
    (lastOp.name \in ReadOperations /\ validArgs(lastOp.args)) =>
        (cannotDetermine(lastOp) <=> lastOp.outcome.status = "threw")

----------------------------------------------------------------------------
(* Properties of the interactions that run outside the retry engine *)

\* C12: a facade call ends in exactly one outcome (it returns, or it throws
\* one error) and appends exactly one entry to the log buffer when no retry
\* occurred; here for hover, which never retries.
C12_OneOutcomeOneEntry ==
    [][ (lastOp'.name = "hoverElement" /\ validArgs(lastOp'.args)) =>
          /\ lastOp'.outcome.status \in {"returned", "threw"}
          /\ Len(logs') = Len(logs) + 1
      ]_vars

----------------------------------------------------------------------------
(* Properties of two interleaved tests *)

\* the test that emitted an entry: the one initializeTest was called for,
\* or the one named in the message of a log call
emitter(e) == IF e.message = <<"Test", "started">> THEN e.testName ELSE e.message[3]

emittedBy(buffer, t) == LET from(e) == emitter(e) = t IN SelectSeq(buffer, from)

\* C13: however the calls of two tests interleave, every entry in the buffer
\* is tagged with the test that emitted it, and a clearTestLogs call made by
\* one test leaves the entries emitted by the other in the buffer, unchanged.
C13_NoCrossContext ==
    [][ /\ \A i \in 1..Len(logs') : logs'[i].testName = emitter(logs'[i])
        /\ \A t \in Tests :
              (tasks[t].pc = "exported" /\ tasks'[t].pc = "done") =>
                  \A u \in Tests \ {t} : emittedBy(logs', u) = emittedBy(logs, u)
      ]_vars

----------------------------------------------------------------------------
(* Properties of logError *)

\* C14: a logError call, with or without a page and with autoInspect on or
\* off, completes and appends exactly one ERROR entry, whatever step of the
\* page inspection fails; the entry carries an inspectionError field when
\* the inspection failed.
C14_LogErrorDegrades ==
    [][ lastOp'.name = "logError" =>
          /\ Len(logs') = Len(logs) + 1
          /\ logs'[Len(logs')].level = "ERROR"
          /\ lastOp'.read \in {"degraded", "fails"} =>
                logs'[Len(logs')].context.inspectionError
      ]_vars

----------------------------------------------------------------------------
(* Properties of the checks and waits that return a boolean *)

\* C15: a boolean check or wait never throws, whatever its arguments and
\* whatever the page does: it returns a boolean, and that boolean is false
\* when an argument is invalid (a null element, a negative timeout or index).
C15_BooleanNeverThrows ==
    lastOp.name \in StateChecks \cup BooleanWaits =>
        /\ lastOp.outcome.status = "returned"
        /\ lastOp.outcome.value.type = "boolean"
        /\ ~validArgs(lastOp.args) => ~lastOp.outcome.value.flag

----------------------------------------------------------------------------
(* Properties of selectOptionValue *)

\* the attempts a call made, in order
attempts(touched) ==
    LET tried(t) == t[1] \in {"selectOption value", "selectOption label"}
    IN  [i \in 1..Len(SelectSeq(touched, tried)) |->
            SelectSeq(touched, tried)[i][1]]

\* C16: on a visible dropdown selectOptionValue tries the value first, and
\* tries the label only after the value attempt has failed; it returns when
\* an option has the wanted text as its value or as its label, and throws
\* otherwise.
C16_ValueThenLabel ==
    ( /\ lastOp.name = "selectOptionValue"
      /\ validArgs(lastOp.args)
      /\ lastOp.page.status = "ready" ) =>
        LET hasValue == \E o \in lastOp.options : o[1] = lastOp.value
            hasLabel == \E o \in lastOp.options : o[2] = lastOp.value
        IN  /\ attempts(lastOp.outcome.touched) =
                  IF hasValue THEN <<"selectOption value">>
                  ELSE <<"selectOption value", "selectOption label">>
            /\ lastOp.outcome.status = "returned" <=> (hasValue \/ hasLabel)

C16_Witness ==
    /\ lastOp.name = "selectOptionValue"
    /\ validArgs(lastOp.args)
    /\ lastOp.page.status = "ready"
    /\ lastOp.value = "Uncategorized"
    /\ lastOp.options = {<<"1", "Uncategorized">>, <<"2", "News">>}
    /\ lastOp.outcome.status = "returned"
    /\ attempts(lastOp.outcome.touched) = <<"selectOption value", "selectOption label">>

----------------------------------------------------------------------------
(* Properties of argument validation *)

\* the operations that take no element index
NoIndex ==
    {"getElementCount", "isElementDisplayed", "isElementHidden",
     "waitForDisplayed", "waitForElementRemoved", "logError", "none"}

\* C17: a facade call given a negative element index (for a drag, as the
\* index of its source or of its target) throws an invalid-parameter error
\* without having called any primitive, and no primitive is ever called with
\* an index below 0.
C17_IndexValidity ==
    /\ \A i \in 1..Len(lastOp.outcome.touched) : lastOp.outcome.touched[i][2] >= 0
    /\ ( /\ lastOp.name \notin NoIndex
         /\ lastOp.args.element = "given"
         /\ lastOp.args.timeout >= 0
         /\ (lastOp.args.index < 0 \/ lastOp.targetIndex < 0) ) =>
          /\ lastOp.outcome.status = "threw"
          /\ includes(lastOp.outcome.error.message, ERROR_MESSAGES.INVALID_PARAMETER)
          /\ lastOp.outcome.touched = <<>>

----------------------------------------------------------------------------
(* Properties of the defaults of click and fill *)

\* C18: with TEST_RETRIES unset, a click whose every attempt fails with a
\* recoverable error is attempted exactly 3 times, 3 being the retry count
\* clickElement hands to the engine by default.
C18_DefaultThreeAttempts ==
    ( /\ RunOver
      /\ call.kind = "click"
      /\ env.TEST_RETRIES = EnvUnset
      /\ engine.status = "threw"
      /\ invocations >= 1
      /\ raised \cap FatalMessages = {} ) =>
        /\ call.maxRetries = 3
        /\ invocations = 3

\* entries the engine writes when a run completes
completedEntries(buffer) ==
    LET done(e) == e.level = "INFO" /\ includes(e.message, <<"completed">>)
    IN  Len(SelectSeq(buffer, done))

----------------------------------------------------------------------------
(* Properties of the smart wait *)

\* the four conditions in their order: the check made for each, whether the
\* call asks for it (visible unless turned off, the others only when turned
\* on) and whether the page meets it
C20_Checks == <<"waitFor", "setTimeout", "toBeEnabled", "not.toBeEmpty">>

C20_Asked ==
    <<lastOp.conditions.visible # "false", lastOp.conditions.stable = "true",
      lastOp.conditions.enabled = "true", lastOp.conditions.hasText = "true">>

C20_Met ==
    <<lastOp.page.status = "ready",
      TRUE,
      lastOp.page.status \in {"hidden", "ready"} /\ lastOp.state,
      lastOp.page.status \in {"hidden", "ready"}
        /\ lastOp.page.content \notin {Null, Str(<<>>)}>>

C21_StabilityDelay ==
    ( /\ lastOp.name = "smartWaitForElement"
      /\ C20_Asked[1] => C20_Met[1] )
    => ( (\E i \in 1..Len(lastOp.outcome.touched) :
               lastOp.outcome.touched[i][1] = "setTimeout")
         <=> (lastOp.conditions.stable = "true" \/ ENABLE_HEALTH_CHECKS(env)) )

\* the issues of the latest report that are neither the multiple-matches
\* note nor, when allowed, the note of a skipped check
C22_Other(allowed) ==
    {i \in 1..Len(health.outcome.issues) :
        Head(health.outcome.issues[i]) \notin ({"Multiple"} \cup allowed)}

\* C22 as stated: in every report of checkElementHealth, healthy is true
\* exactly when the issue list has no entry other than the multiple-matches
\* note.
C22_HealthyIffOnlyMultiple ==
    health.called => (health.outcome.healthy <=> C22_Other({}) = {})

\* C22: in every report of checkElementHealth, healthy is true exactly when
\* the issue list has no entry other than the multiple-matches note and the
\* "Health check skipped" note of an inspection that raised; with the flag
\* off the report is healthy with no issues, two matches otherwise fine give
\* healthy with the single multiple-matches note, and zero matches give
\* healthy = false.
C22_HealthyMeaning ==
    health.called =>
        /\ health.outcome.healthy <=> C22_Other({"Health"}) = {}
        /\ env.DETAILED_HEALTH_CHECKS # "true"
              => health.outcome = Report(TRUE, <<>>)
        /\ ( /\ env.DETAILED_HEALTH_CHECKS = "true"
             /\ health.count = Answers(2)
             /\ health.isVisible = Answers(TRUE)
             /\ health.operationType = "read" \/ health.isEnabled = Answers(TRUE) )
           => health.outcome =
                 Report(TRUE, << <<"Multiple", "elements", "found", "2",
                                   "using", "first", "one">> >>)
        /\ (env.DETAILED_HEALTH_CHECKS = "true" /\ health.count = Answers(0))
              => ~health.outcome.healthy

C22_Witness ==
    /\ health.called
    /\ env.DETAILED_HEALTH_CHECKS = "true"
    /\ health.operationType = "fill"
    /\ health.count = Answers(2)
    /\ health.isVisible = Answers(TRUE)
    /\ health.isEnabled = Answers(TRUE)
    /\ health.outcome.healthy
    /\ Len(health.outcome.issues) = 1
    /\ Head(health.outcome.issues[1]) = "Multiple"

----------------------------------------------------------------------------
(* Properties of the click path *)

\* C23: with detailed health checks enabled, every click primitive a click
\* call invokes comes after a health check of the element (whose first
\* inspection is count()), itself made after the visibility wait of the same
\* attempt; and the health check never makes the click fail.
C23_HealthCheckBeforeClick ==
    (ENABLE_HEALTH_CHECKS(env) /\ call.kind = "click") =>
        \A i \in 1..Len(prims) :
            prims[i] = "click" =>
                /\ i > 2
                /\ prims[i - 1] \in {"count", "isVisible", "isEnabled"}
                /\ \E j \in 1..(i - 1) :
                      /\ prims[j] = "waitFor"
                      /\ \A k \in (j + 1)..(i - 1) :
                            prims[k] \in {"count", "isVisible", "isEnabled"}

\* C24: whenever a facade operation fails on the page (here the ones that
\* run outside the retry engine: hover, select, drag, the reads and the
\* waits, called with valid arguments), the failure is logged as an ERROR
\* entry before the wrapped error reaches the caller, so the call that
\* throws has appended an ERROR entry to the buffer.
C24_ErrorLoggedBeforeThrow ==
    [][ ( /\ lastOp'.name \notin {"none", "smartWaitForElement"}
          /\ validArgs(lastOp'.args)
          /\ lastOp'.outcome.status = "threw" )
        => ( /\ Len(logs') > Len(logs)
             /\ \E i \in (Len(logs) + 1)..Len(logs') : logs'[i].level = "ERROR" )
      ]_vars

----------------------------------------------------------------------------
(* Properties of the fill path *)

\* C25: with value verification enabled, an attempt of a fill whose
\* read-back value differs from the value set raises the value-verification
\* error, and unless it was the last attempt allowed the engine waits and
\* attempts the fill again, whatever the value and the read-back value.
C25_MismatchRetried ==
    [][ ( /\ call.kind = "fill"
          /\ ENABLE_VALUE_VERIFICATION(env)
          /\ invocations' = invocations + 1
          /\ last'.prims = <<"waitFor", "fill", "inputValue">>
          /\ last'.error.kind \in {"none", "Error"}
          /\ last'.error.kind = "Error" => Head(last'.error.message) = "Value"
          /\ last'.readback # call.value )
        => ( /\ ~last'.ok
             /\ last'.error.kind = "Error"
             /\ attempt < call.maxRetries => pc' = "backoff" )
      ]_vars

----------------------------------------------------------------------------
(* Properties of the test context *)

\* C26: the active test context is the name given to the latest
\* initializeTest until the test ends; once the test-end sequence has run
\* (exportForReporting, then clearTestLogs) the context is empty, so an
\* entry logged right after it is not tagged with the finished test's name.
C26_ContextClearedAtEnd ==
    [][ /\ call'.kind = "initializeTest" => currentTest' # ""
        /\ (call.kind = "exportForReporting" /\ call'.kind = "clearTestLogs")
              => currentTest' = ""
        /\ (call.kind = "clearTestLogs" /\ call'.kind \in {"log", "logUserAction"})
              => logs'[Len(logs')].testName = ""
      ]_vars

----------------------------------------------------------------------------
(* Properties of the error a failed run throws *)

\* C27: a retry run that fails after invoking the operation throws the very
\* error the most recent invocation raised: an Error object, equal to that
\* invocation's error, whether the run ended on an unrecoverable error or on
\* the last attempt allowed, and whatever earlier attempts raised.
C27_RethrowsLastError ==
    (RunOver /\ engine.status = "threw" /\ invocations >= 1) =>
        /\ ~last.ok
        /\ engine.error = last.error
        /\ engine.error.kind = "Error"
        /\ engine.error.message \in raised

C27_Witness ==
    /\ RunOver
    /\ call.kind = "retry"
    /\ engine.status = "threw"
    /\ invocations = 3
    /\ Cardinality(raised) = 3
    /\ last.error.message = MsgRefused
    /\ engine.error = Err(MsgRefused)

----------------------------------------------------------------------------
(* Properties of the error analysis *)

\* C28: when logError is called with a page on which a visible element
\* matches any selector of the inspector's error-message list and reads
\* "Invalid username or password", the error analysis exported for the test
\* holds that exact text and a suggestion about the login or the
\* credentials.
C28_LoginFailureExplained ==
    ( /\ lastOp.name = "logError"
      /\ \E i \in 1..Len(errorSelectors) : lastOp.shown.selector = errorSelectors[i]
      /\ lastOp.shown.visible
      /\ lastOp.shown.text = <<"Invalid", "username", "or", "password">> )
    => LET analysis == exportForReporting(logs, currentTest).errorAnalysis
           text == analysis[Len(analysis)].text
       IN  /\ Len(analysis) > 0
           /\ includes(text, <<"Invalid", "username", "or", "password">>)
           /\ \/ includes(text, <<"credentials">>)
              \/ includes(text, <<"Login">>)
              \/ includes(text, <<"username">>)

----------------------------------------------------------------------------
(* Termination of click and fill *)

\* C29: every click or fill that has entered the retry loop eventually
\* completes, returning or throwing an error, when each attempt it starts
\* ends and the backoff timer fires: the loop never retries forever.
C29_ClickFillTerminates ==
    (pc \in {"attempt", "backoff"})
        ~> (pc = "done" /\ result.status \in {"returned", "threw"})

C29_Witness ==
    /\ pc = "done"
    /\ call.kind = "click"
    /\ call.maxRetries = MaxEnvRetries
    /\ invocations = MaxEnvRetries
    /\ Len(delays) = MaxEnvRetries - 1
    /\ result.status = "returned"

----------------------------------------------------------------------------
(* Properties of the retry count *)

\* C30: whatever retry count is passed to or configured for the engine
\* (zero and negative counts included), a run that reports failure has
\* invoked the operation at least once, and what it throws is an Error
\* raised by an invocation, never the value undefined.
C30_AtLeastOneAttempt ==
    (RunOver /\ engine.status = "threw") =>
        /\ invocations >= 1
        /\ engine.error.kind = "Error"
        /\ engine.error.message \in raised

====
